---------------------------- MODULE Spec2Model ----------------------------
(***************************************************************************)
(* A model of stace: the ThingSpeak ingestion path (stace/dataloader.py)   *)
(* and the calibration classes (stace/calibrate.py).                       *)
(*                                                                         *)
(* Ingestion.  The channel's feed is the entries 1..upstream, entry i      *)
(* created at CreatedAt(i).  The service answers a request with a          *)
(* contiguous range of the feed, and get_single_batch returns it sorted by *)
(* timestamp, so a DataFrame is written as the record                      *)
(* [first |-> i, last |-> j]: the rows i, i+1, ..., j in ascending         *)
(* timestamp order (no rows when j < i).  Field columns play no part in    *)
(* the control flow and are left out.  A Series made of several frames is  *)
(* the sequence of its runs.                                               *)
(*                                                                         *)
(* Calibration.  Reference values are small integers; quotients are kept   *)
(* as exact fractions [num, den].                                          *)
(***************************************************************************)
EXTENDS Integers, Sequences, FiniteSets, TLC

VARIABLES
    \* ---- ingestion ----
    upstream,      \* number of entries the channel holds
    kwargs,        \* the caller's **query_params
    query_params,  \* get's query_params after the default is merged in
    path,          \* which branch get took: "none", "single", "multiple"
    batches,       \* get_multiple_batches: the list of batch sizes
    i,             \* get_multiple_batches: position of the loop in batches
    start_date,    \* get_multiple_batches: start_date (<<>> is None)
    res,           \* get_multiple_batches: the frames fetched so far
    requests,      \* every request sent to the service, in order
    inflight,      \* the request waiting for its response (at most one)
    pc,            \* "get", "fetch", "await", "done", "raised"
    error,         \* the exception that left get, "" when none
    ret,           \* the Series get returned (<<>> before it returns)
    \* ---- calibration ----
    kind,          \* "TwoPoint" or "ThreePoint"
    ref_pts,       \* the constructor's argument
    X,             \* the raw value handed to correct
    self,          \* the object's attributes (<<>> before construction)
    cal_pc,        \* "new", "constructed", "corrected", "raised"
    cal_out        \* what the last call produced

ingest_vars == <<upstream, kwargs, query_params, path, batches, i, start_date,
                 res, requests, inflight, pc, error, ret>>
cal_vars == <<kind, ref_pts, X, self, cal_pc, cal_out>>
vars == <<ingest_vars, cal_vars>>

----------------------------------------------------------------------------
(* Bounds *)

\* N and the feed length range over values around 1..MaxBatches multiples of
\* the batch size.
MaxBatches == 2
\* Seconds between two consecutive feed entries.
Period == 15
\* Reference values and raw values are drawn from 0..MaxVal.
MaxVal == 2

----------------------------------------------------------------------------
(* Ingestion: constants and helpers *)

MAX_BATCH_SIZE == 8000

\* The service never returns more than this many entries for one request.
ServiceCap == MAX_BATCH_SIZE

Min(a, b) == IF a <= b THEN a ELSE b

\* Python's dict union a | b: keys of both, b's value where both have the key.
Merge(a, b) ==
    [k \in (DOMAIN a) \cup (DOMAIN b) |-> IF k \in DOMAIN b THEN b[k] ELSE a[k]]

NoDate == <<>>
NoSeries == <<>>

\* created_at of feed entry n, in seconds.
CreatedAt(n) == n * Period

\* Timestamp.strftime("%Y-%m-%d %H:%M:%S").replace(" ", "%20"): the date, the
\* encoded separator, hours, minutes, seconds.
Strftime(t) ==
    <<t \div 86400, "%20", (t % 86400) \div 3600, (t % 3600) \div 60, t % 60>>

\* The service reading an `end` bound back into seconds.
ParseEnd(e) == e[1] * 86400 + e[3] * 3600 + e[4] * 60 + e[5]

Size(df) == IF df.last >= df.first THEN df.last - df.first + 1 ELSE 0

\* The service's answer to one request: the newest `results` entries (at most
\* ServiceCap) among those created at or before `end`.
Serve(config) ==
    LET newest == IF "end" \in DOMAIN config
                  THEN Min(upstream, ParseEnd(config["end"]) \div Period)
                  ELSE upstream
        count == Min(Min(config["results"], ServiceCap), newest)
    IN  [first |-> newest - count + 1, last |-> newest]

\* Batches with the remainder appended unconditionally (the guard
\* `if N % N_MAX != 0` dropped).
BatchesAlwaysRemainder(N, N_MAX) ==
    [k \in 1..(N \div N_MAX) |-> N_MAX] \o <<N % N_MAX>>

\* batches = [N_MAX] * (N // N_MAX); batches.append(N % N_MAX) if N % N_MAX != 0
Batches(N, N_MAX) ==
    [k \in 1..(N \div N_MAX) |-> N_MAX]
        \o (IF N % N_MAX # 0 THEN <<N % N_MAX>> ELSE <<>>)

\* _config = query_params | {"results": batch_size, "end": start_date}
\*           if start_date else query_params
Config(qp, batch_size, sd) ==
    IF sd # NoDate
    THEN Merge(qp, [results |-> batch_size, end |-> sd])
    ELSE qp

\* NextStartDate reading the frame's last row (iloc[-1]) instead of its first.
NextStartDateLastRow(df) == Strftime(CreatedAt(df.last))

\* start_date = _df.iloc[0].Timestamp.strftime(...).replace(" ", "%20")
NextStartDate(df) == Strftime(CreatedAt(df.first))

\* pd.concat(res).sort_values("Timestamp").reset_index(drop=True): the rows of
\* all frames in ascending timestamp order.  Every frame fetched after another
\* holds rows no later than that one's first row, so the sorted rows are the
\* frames laid end to end in the order of their last rows.
ConcatSorted(frames) ==
    SortSeq(frames, LAMBDA a, b : \/ a.last < b.last
                                  \/ (a.last = b.last /\ a.first < b.first))

RECURSIVE SeriesLen(_)
SeriesLen(s) == IF s = <<>> THEN 0 ELSE Size(Head(s)) + SeriesLen(Tail(s))

\* How many rows of the series carry feed entry n.
RowsAt(s, n) ==
    Cardinality({k \in 1..Len(s) : s[k].first <= n /\ n <= s[k].last})

----------------------------------------------------------------------------
(* Ingestion: inputs *)

NChoices ==
    {1, 10} \cup {k * MAX_BATCH_SIZE + d : k \in 1..MaxBatches,
                                          d \in {-1, 0, 1, 4000}}

UChoices ==
    {0, 1, 5} \cup {k * MAX_BATCH_SIZE + d : k \in 1..(MaxBatches + 1),
                                             d \in {-1, 0, 1}}

KwargsChoices ==
    {[api_key |-> "KEY"]}
        \cup {[api_key |-> "KEY", results |-> n] : n \in NChoices}

IngestInit ==
    /\ upstream \in UChoices
    /\ kwargs \in KwargsChoices
    /\ query_params = kwargs
    /\ path = "none"
    /\ batches = <<>>
    /\ i = 1
    /\ start_date = NoDate
    /\ res = <<>>
    /\ requests = <<>>
    /\ inflight = <<>>
    /\ pc = "get"
    /\ error = ""
    /\ ret = NoSeries

IngestIdle ==
    /\ upstream = 0
    /\ kwargs = [api_key |-> "KEY"]
    /\ query_params = kwargs
    /\ path = "none"
    /\ batches = <<>>
    /\ i = 1
    /\ start_date = NoDate
    /\ res = <<>>
    /\ requests = <<>>
    /\ inflight = <<>>
    /\ pc = "idle"
    /\ error = ""
    /\ ret = NoSeries

----------------------------------------------------------------------------
(* Ingestion: actions *)

\* ThingSpeakAPICaller.get: merge the default and pick the branch.
Get ==
    /\ pc = "get"
    /\ LET qp == Merge([results |-> 10], kwargs) IN
        /\ query_params' = qp
        /\ IF qp["results"] < MAX_BATCH_SIZE
           THEN /\ path' = "single"
                /\ batches' = <<>>
           ELSE /\ path' = "multiple"
                /\ batches' = Batches(qp["results"], MAX_BATCH_SIZE)
    /\ pc' = "fetch"
    /\ UNCHANGED <<upstream, kwargs, i, start_date, res, requests, inflight,
                   error, ret>>
    /\ UNCHANGED cal_vars

\* get_single_batch up to requests.get: the request goes out.  On the single
\* path it carries query_params, on the multiple path the loop's _config.
SendRequest ==
    /\ pc = "fetch"
    /\ LET config == IF path = "single"
                     THEN query_params
                     ELSE Config(query_params, batches[i], start_date)
       IN  /\ requests' = Append(requests, config)
           /\ inflight' = <<config>>
    /\ pc' = "await"
    /\ UNCHANGED <<upstream, kwargs, query_params, path, batches, i,
                   start_date, res, error, ret>>
    /\ UNCHANGED cal_vars

\* Raise with the exception caught and the batches fetched so far returned.
RaiseSalvage(e) ==
    /\ pc' = "done"
    /\ error' = e
    /\ ret' = ConcatSorted(res)
    /\ inflight' = <<>>
    /\ UNCHANGED <<upstream, kwargs, query_params, path, batches, i,
                   start_date, res, requests>>
    /\ UNCHANGED cal_vars

\* An exception leaves get_single_batch and, uncaught, get_multiple_batches
\* and get: nothing is returned.
Raise(e) ==
    /\ pc' = "raised"
    /\ error' = e
    /\ ret' = NoSeries
    /\ inflight' = <<>>
    /\ UNCHANGED <<upstream, kwargs, query_params, path, batches, i,
                   start_date, res, requests>>
    /\ UNCHANGED cal_vars

\* requests.get(get_url) fails.
TransportFails ==
    /\ pc = "await"
    /\ Raise("ConnectionError")

\* if len(query["feeds"]) == 0: raise ValueError("No data was fetched.")
EmptyResponse ==
    /\ pc = "await"
    /\ Size(Serve(inflight[1])) = 0
    /\ Raise("ValueError")

\* get_single_batch returns its sorted frame.  On the single path get returns
\* it; on the multiple path the loop appends it, moves start_date to its
\* first row, and goes on to the next batch or returns the sorted
\* concatenation.
BatchResponse ==
    /\ pc = "await"
    /\ LET df == Serve(inflight[1]) IN
        /\ Size(df) > 0
        /\ IF path = "single"
           THEN /\ ret' = <<df>>
                /\ pc' = "done"
                /\ UNCHANGED <<res, start_date, i>>
           ELSE /\ res' = Append(res, df)
                /\ start_date' = NextStartDate(df)
                /\ IF i < Len(batches)
                   THEN /\ i' = i + 1
                        /\ pc' = "fetch"
                        /\ ret' = ret
                   ELSE /\ i' = i
                        /\ pc' = "done"
                        /\ ret' = ConcatSorted(res')
    /\ inflight' = <<>>
    /\ UNCHANGED <<upstream, kwargs, query_params, path, batches, requests,
                   error>>
    /\ UNCHANGED cal_vars

----------------------------------------------------------------------------
(* Calibration *)

Vals == 0..MaxVal
Pairs == Vals \X Vals

CalInit ==
    /\ kind \in {"TwoPoint", "ThreePoint"}
    /\ ref_pts \in IF kind = "TwoPoint"
                   THEN {<<p, q>> : p \in Pairs, q \in Pairs}
                   ELSE {<<p, q, r>> : p \in Pairs, q \in Pairs, r \in Pairs}
    /\ X \in Vals
    /\ self = <<>>
    /\ cal_pc = "new"
    /\ cal_out = [exc |-> "", num |-> 0, den |-> 1]

CalIdle ==
    /\ kind = "TwoPoint"
    /\ ref_pts = <<<<0, 0>>, <<1, 1>>>>
    /\ X = 0
    /\ self = <<>>
    /\ cal_pc = "idle"
    /\ cal_out = [exc |-> "", num |-> 0, den |-> 1]

\* The names bound at module level in stace/calibrate.py.
ModuleGlobals ==
    {"np", "pd", "ABC", "abstractmethod", "Calibrate", "OnePoint", "TwoPoint",
     "ThreePoint"}

\* TwoPoint.__init__: stores the two reference points.
TwoPointInit ==
    /\ cal_pc = "new"
    /\ kind = "TwoPoint"
    /\ self' = [x1 |-> ref_pts[1][1], y1 |-> ref_pts[1][2],
                x2 |-> ref_pts[2][1], y2 |-> ref_pts[2][2]]
    /\ cal_pc' = "constructed"
    /\ UNCHANGED <<kind, ref_pts, X, cal_out>>
    /\ UNCHANGED ingest_vars

\* TwoPoint.correct: return (y2 - y1) / (x2 - x1) * (X - x1) + y1.  The local
\* names are self and X; y2, y1, x2, x1 are looked up as globals of the module.
TwoPointCorrect ==
    /\ cal_pc = "constructed"
    /\ kind = "TwoPoint"
    /\ LET locals == {"self", "X"}
           used == {"y2", "y1", "x2", "x1", "X"}
           unbound == used \ (locals \cup ModuleGlobals)
       IN  IF unbound # {}
           THEN /\ cal_out' = [exc |-> "NameError", num |-> 0, den |-> 1]
                /\ cal_pc' = "raised"
           ELSE IF self.x2 - self.x1 = 0
           THEN /\ cal_out' = [exc |-> "ZeroDivisionError", num |-> 0, den |-> 1]
                /\ cal_pc' = "raised"
           ELSE /\ cal_out' = [exc |-> "",
                               num |-> (self.y2 - self.y1) * (X - self.x1)
                                       + self.y1 * (self.x2 - self.x1),
                               den |-> self.x2 - self.x1]
                /\ cal_pc' = "corrected"
    /\ UNCHANGED <<kind, ref_pts, X, self>>
    /\ UNCHANGED ingest_vars

\* Determinant of [[1, x1, x1^2], [1, x2, x2^2], [1, x3, x3^2]].
Det(x1, x2, x3) == (x2 - x1) * (x3 - x1) * (x3 - x2)

\* ThreePoint._coeffs: np.linalg.inv(X).dot(Y), by Cramer's rule; the three
\* coefficients share the denominator Det.
Coeffs(x1, y1, x2, y2, x3, y3) ==
    LET a == y1 * (x2 * x3 * x3 - x3 * x2 * x2)
             - x1 * (y2 * x3 * x3 - y3 * x2 * x2)
             + x1 * x1 * (y2 * x3 - y3 * x2)
        b == (y2 * x3 * x3 - y3 * x2 * x2)
             - y1 * (x3 * x3 - x2 * x2)
             + x1 * x1 * (y3 - y2)
        c == (x2 * y3 - x3 * y2)
             - x1 * (y3 - y2)
             + y1 * (x3 - x2)
    IN  <<a, b, c>>

\* ThreePoint.__init__: stores the points and computes the coefficients;
\* np.linalg.inv raises LinAlgError on a singular matrix.
ThreePointInit ==
    /\ cal_pc = "new"
    /\ kind = "ThreePoint"
    /\ LET x1 == ref_pts[1][1]
           y1 == ref_pts[1][2]
           x2 == ref_pts[2][1]
           y2 == ref_pts[2][2]
           x3 == ref_pts[3][1]
           y3 == ref_pts[3][2]
       IN  IF Det(x1, x2, x3) = 0
           THEN /\ cal_pc' = "raised"
                /\ cal_out' = [exc |-> "LinAlgError", num |-> 0, den |-> 1]
                /\ self' = self
           ELSE /\ cal_pc' = "constructed"
                /\ self' = [x1 |-> x1, y1 |-> y1, x2 |-> x2, y2 |-> y2,
                            x3 |-> x3, y3 |-> y3,
                            coeffs |-> Coeffs(x1, y1, x2, y2, x3, y3),
                            det |-> Det(x1, x2, x3)]
                /\ cal_out' = cal_out
    /\ UNCHANGED <<kind, ref_pts, X>>
    /\ UNCHANGED ingest_vars

\* ThreePoint.correct: coeffs[0] + coeffs[1] * X + coeffs[2] * X**2
ThreePointCorrect ==
    /\ cal_pc = "constructed"
    /\ kind = "ThreePoint"
    /\ cal_out' = [exc |-> "",
                   num |-> self.coeffs[1] + self.coeffs[2] * X
                           + self.coeffs[3] * X * X,
                   den |-> self.det]
    /\ cal_pc' = "corrected"
    /\ UNCHANGED <<kind, ref_pts, X, self>>
    /\ UNCHANGED ingest_vars

----------------------------------------------------------------------------
(* Specifications *)

Init == IngestInit /\ CalIdle

Next ==
    \/ Get
    \/ SendRequest
    \/ TransportFails
    \/ EmptyResponse
    \/ BatchResponse

Spec == Init /\ [][Next]_vars

InitCal == IngestIdle /\ CalInit

NextCal ==
    \/ TwoPointInit
    \/ TwoPointCorrect
    \/ ThreePointInit
    \/ ThreePointCorrect

SpecCal == InitCal /\ [][NextCal]_vars

----------------------------------------------------------------------------
(* Claims *)

\* The requested record count of a paginated run.
Requested == query_params["results"]

\* The run ended without a transport failure.
Ended == pc \in {"done", "raised"} /\ error # "ConnectionError"

\* C1: for total_count above the per-batch cap, the Series the paginated
\* fetch returns has at most total_count rows, is strictly ascending in
\* timestamp (no two rows share one), and holds the record at each batch
\* boundary exactly once.
C1_PaginatedSeriesStrictlyAscending ==
    (pc = "done" /\ path = "multiple" /\ Requested > MAX_BATCH_SIZE) =>
        /\ SeriesLen(ret) <= Requested
        /\ \A k \in 1..(Len(ret) - 1) :
              CreatedAt(ret[k].last) < CreatedAt(ret[k + 1].first)
        /\ \A k \in 1..(Len(res) - 1) : RowsAt(ret, res[k].first) = 1

\* C2: every request sent to the service asks for at most 8000 results, the
\* first request of a multi-batch run included.
C2_RequestsWithinCap ==
    \A k \in 1..Len(requests) : requests[k]["results"] <= MAX_BATCH_SIZE

\* C3: once a batch of a paginated run has returned fewer records than its
\* batch size, no further request is sent.
C3_EarlyTermination ==
    [][(/\ path = "multiple"
        /\ \E k \in 1..Len(res) : Size(res[k]) < batches[k])
       => requests' = requests]_vars

\* C4: when the channel holds fewer records than total_count (and is not
\* empty), the paginated fetch does not raise and returns a Series shorter
\* than total_count.
C4_ExhaustionReturnsShorterSeries ==
    (path = "multiple" /\ Ended /\ upstream >= 1 /\ upstream < Requested) =>
        /\ pc = "done"
        /\ error = ""
        /\ SeriesLen(ret) < Requested

\* C5: when the channel holds at least total_count records, the paginated
\* fetch returns exactly total_count rows, with exactly one row at each
\* boundary timestamp where consecutive batches overlapped.
C5_SufficientHistoryExactLength ==
    (path = "multiple" /\ pc = "done" /\ upstream >= Requested) =>
        /\ SeriesLen(ret) = Requested
        /\ \A k \in 1..(Len(res) - 1) : RowsAt(ret, res[k].first) = 1

\* C6: in a paginated run at most one request is outstanding and request k+1
\* is sent only after batch k arrived; the first request is the caller's
\* options with no `end`; request k+1 carries an `end` that reads
\* date%20HH:MM:SS and equals the earliest timestamp of batch k; the `end`
\* bounds never move forward in time.
C6_ContinuationFromEarliestTimestamp ==
    path = "multiple" =>
        /\ Len(inflight) <= 1
        /\ Len(requests)
             = Len(res) + Len(inflight) + (IF error # "" THEN 1 ELSE 0)
        /\ Len(requests) >= 1 =>
              /\ requests[1] = kwargs
              /\ "end" \notin DOMAIN requests[1]
        /\ \A k \in 1..(Len(requests) - 1) :
              /\ "end" \in DOMAIN requests[k + 1]
              /\ LET e == requests[k + 1]["end"] IN
                    /\ Len(e) = 5
                    /\ e[2] = "%20"
                    /\ e[3] \in 0..23 /\ e[4] \in 0..59 /\ e[5] \in 0..59
                    /\ \E n \in res[k].first..res[k].last :
                          CreatedAt(n) = ParseEnd(e)
                    /\ \A n \in res[k].first..res[k].last :
                          CreatedAt(n) >= ParseEnd(e)
        /\ \A k \in 2..(Len(requests) - 1) :
              ParseEnd(requests[k + 1]["end"]) <= ParseEnd(requests[k]["end"])

\* C6 witness: a paginated run that sent three requests and returned.
C6_Witness ==
    path = "multiple" /\ pc = "done" /\ Len(requests) = 3 /\ Len(res) = 3

\* C7: when a batch fetch fails (a transport failure, or the ValueError of an
\* empty response), the run ends with that error: nothing is returned, not
\* even the batches fetched before, and no request is sent afterwards.
C7_BatchErrorAbortsRun ==
    [][/\ error' # "" => (pc' = "raised" /\ ret' = NoSeries)
       /\ error # "" => (requests' = requests /\ error' = error)]_vars

\* C7 witness: a paginated run failed after at least one batch had arrived.
C7_Witness ==
    path = "multiple" /\ pc = "raised" /\ error # "" /\ Len(res) >= 1

\* C8: a TwoPoint model with measured1 # measured2 corrects measured1 to
\* truth1 and measured2 to truth2.
C8_TwoPointHitsReferencePoints ==
    (/\ kind = "TwoPoint"
     /\ cal_pc \in {"corrected", "raised"}
     /\ self.x1 # self.x2) =>
        /\ cal_out.exc = ""
        /\ X = self.x1 => cal_out.num = self.y1 * cal_out.den
        /\ X = self.x2 => cal_out.num = self.y2 * cal_out.den

\* C9: a TwoPoint or ThreePoint model whose measured values are not pairwise
\* distinct is never constructed: the constructor fails.
C9_DegenerateConstructionFails ==
    cal_pc \in {"constructed", "corrected"} =>
        \A a, b \in 1..Len(ref_pts) : a # b => ref_pts[a][1] # ref_pts[b][1]

\* C10: with enough history, get sends ceil(N / 8000) requests: one when
\* N <= 8000 (N = 8000 going through the multi-batch path), else N \div 8000
\* batches of 8000 and one more of N % 8000 when that is not zero; no batch
\* has size zero.
C10_RequestCountIsCeiling ==
    /\ \A k \in 1..Len(batches) : batches[k] > 0
    /\ (pc = "done" /\ upstream >= Requested) =>
          /\ Len(requests)
               = (Requested + MAX_BATCH_SIZE - 1) \div MAX_BATCH_SIZE
          /\ Requested <= MAX_BATCH_SIZE => Len(requests) = 1
          /\ Requested = MAX_BATCH_SIZE => path = "multiple"
          /\ path = "multiple" =>
                /\ Len(batches) = Len(requests)
                /\ \A k \in 1..(Requested \div MAX_BATCH_SIZE) :
                      batches[k] = MAX_BATCH_SIZE
                /\ Requested % MAX_BATCH_SIZE # 0 =>
                      batches[Len(batches)] = Requested % MAX_BATCH_SIZE

\* C10 witness: a run for a multiple of the cap that sent two requests.
C10_Witness ==
    /\ pc = "done"
    /\ upstream >= Requested
    /\ Requested = 2 * MAX_BATCH_SIZE
    /\ Len(requests) = 2

=============================================================================
